---- MODULE Spec2Model ----
(***************************************************************************)
(* Length-prefixed framing of skynet (src/src/lib.rs):                     *)
(*   SerializedTcpStream  { buffer: Vec<u8>, stream: TcpStream }           *)
(*   SerializedUdpSocket  { socket: UdpSocket }                            *)
(* The codec is bincode 1.x (fixed-width little-endian integers, trailing  *)
(* bytes of a slice ignored by deserialize).  The message type R/S of the  *)
(* generic methods is instantiated with Option<u8>, the type the crate's   *)
(* own stream test uses; None is <<>> and Some(x) is <<x>>.                *)
(*                                                                         *)
(* A byte takes the values 0..ByteBase-1 and a machine word (u64, usize)   *)
(* is PrefixLen bytes wide, so it takes the values 0..WordMod-1.           *)
(***************************************************************************)
EXTENDS Integers, Sequences, FiniteSets, TLC

\* ------------------------------------------------------------------ bounds
ByteBase == 4
MaxWrites == 2
MaxDgrams == 3
CarryFrames == 3
\* how many of the smallest and of the largest u64 values are serialized on their own
SizeProbes == 32

\* --------------------------------------------------------------- constants
\* the width of the length prefix: the literal 8 of recv, recv_from, send_to
PrefixLen == 8

Byte == 0 .. (ByteBase - 1)
WordMod == ByteBase ^ PrefixLen
TopByte == ByteBase - 1

\* the values of Option<u8> the endpoints exchange
Msgs == { <<>>, <<0>>, <<1>>, <<TopByte>> }

\* ------------------------------------------------------------------- codec
Min(a, b) == IF a < b THEN a ELSE b

Take(s, n) == SubSeq(s, 1, Min(n, Len(s)))

Drop(s, n) == SubSeq(s, n + 1, Len(s))

RECURSIVE LeBytes(_, _)
\* the k low-order bytes of n, least significant first
LeBytes(n, k) == IF k = 0 THEN <<>> ELSE <<n % ByteBase>> \o LeBytes(n \div ByteBase, k - 1)

RECURSIVE LeValue(_)
LeValue(bs) == IF bs = <<>> THEN 0 ELSE Head(bs) + ByteBase * LeValue(Tail(bs))

\* bincode::serialize_into(w, &size) for size: u64
\* a variable-width integer encoding: only the bytes up to the last non-zero one
RECURSIVE EncodeU64Compact(_)
EncodeU64Compact(n) ==
    IF n < ByteBase THEN << n >> ELSE << n % ByteBase >> \o EncodeU64Compact(n \div ByteBase)

EncodeU64(n) == LeBytes(n, PrefixLen)

\* bincode::deserialize::<u64>(bytes): reads the first 8 bytes, fails with
\* ErrorKind::Io(UnexpectedEof) on a shorter slice, ignores what follows
DecodeU64(bs) ==
    IF Len(bs) < PrefixLen
    THEN [kind |-> "UnexpectedEof", val |-> 0]
    ELSE [kind |-> "Ok", val |-> LeValue(Take(bs, PrefixLen))]

\* bincode::serialize_into(w, data) for data: Option<u8>
Encode(v) == IF v = <<>> THEN <<0>> ELSE <<1, v[1]>>

\* bincode::serialized_size(data) for data: Option<u8>
SerializedSize(v) == IF v = <<>> THEN 1 ELSE 2

\* bincode::deserialize::<Option<u8>>(bytes)
Decode(bs) ==
    IF Len(bs) = 0 THEN [kind |-> "UnexpectedEof", val |-> <<>>]
    ELSE IF bs[1] = 0 THEN [kind |-> "Ok", val |-> <<>>]
    ELSE IF bs[1] # 1 THEN [kind |-> "InvalidTagEncoding", val |-> <<>>]
    ELSE IF Len(bs) < 2 THEN [kind |-> "UnexpectedEof", val |-> <<>>]
    ELSE [kind |-> "Ok", val |-> <<bs[2]>>]

\* the bytes send and send_to produce for one message: prefix, then payload
Frame(v) == EncodeU64(SerializedSize(v)) \o Encode(v)

\* ------------------------------------------------------------------- state
VARIABLES
    wire,       \* every byte written to the TcpStream towards the receiver, in order
    nread,      \* how many bytes of wire read_to_end has appended to the buffer
    fault,      \* the receiver's socket has a pending connection reset
    buffer,     \* SerializedTcpStream.buffer of the receiving endpoint
    sendLog,    \* the send calls of the sending endpoint: value, bytes written, result
    rawCount,   \* writes to the stream that were not made by send
    last,       \* the last recv call: read_to_end's outcome, the buffer after it, the result
    returned,   \* the messages recv has returned, in order
    consumed,   \* total length, prefix included, of the frames recv has returned
    debugBuild, \* the build has debug assertions and overflow checks (a debug build)
    net,        \* datagrams sent to the receiving socket's address, not yet delivered
    queue,      \* datagrams queued at the receiving UdpSocket, oldest first
    dgCount,    \* datagrams sent so far
    udpLast,    \* the last recv_from call: the queue it found, the queue it left, its result
    probe       \* the u64 values serialized on their own so far (at most the last one) and their bytes

streamVars == << wire, nread, fault, buffer, sendLog, rawCount, last, returned, consumed >>

udpVars == << net, queue, dgCount, udpLast >>

vars == << streamVars, udpVars, debugBuild, probe >>

\* the transport's room for a send call: how many bytes its writes accept
\* before one fails (PrefixLen + 2 holds every frame)
SendRooms == { 0, PrefixLen, PrefixLen + 2 }

\* what a peer that is not a SerializedTcpStream may write
RawChunks == { EncodeU64(WordMod - 1), EncodeU64(3), <<TopByte>>, EncodeU64(1) \o <<TopByte>> }

\* last before any call
NoCall == [rerr |-> "WouldBlock", buf |-> <<>>, kind |-> "NoCall", msg |-> <<>>]

\* udpLast before any call
NoCallUdp == [found |-> <<>>, left |-> <<>>, kind |-> "NoCall", msg |-> <<>>, addr |-> "none"]

Init ==
    /\ wire = <<>>
    /\ nread = 0
    /\ fault = FALSE
    /\ buffer = <<>>
    /\ sendLog = <<>>
    /\ rawCount = 0
    /\ last = NoCall
    /\ returned = <<>>
    /\ consumed = 0
    /\ debugBuild \in BOOLEAN
    /\ net = <<>>
    /\ queue = <<>>
    /\ dgCount = 0
    /\ udpLast = NoCallUdp
    /\ probe = <<>>

\* ------------------------------------------------- SerializedTcpStream::send
\* a prefix that counts its own 8 bytes
SendWrittenPrefixCountsItself(v, room) ==
    LET prefix  == EncodeU64(SerializedSize(v) + PrefixLen)
        payload == Encode(v)
    IN  IF room < Len(prefix) THEN Take(prefix, room)
        ELSE prefix \o Take(payload, room - Len(prefix))

\* The bytes one send call puts on the stream when the transport accepts
\* `room` bytes: write_all of the prefix, then the writes of the payload; the
\* first failing write ends the call with the bytes before it already written.
SendWritten(v, room) ==
    LET prefix  == EncodeU64(SerializedSize(v))
        payload == Encode(v)
    IN  IF room < Len(prefix) THEN Take(prefix, room)
        ELSE prefix \o Take(payload, room - Len(prefix))

SendResult(v, room) ==
    IF room < PrefixLen + SerializedSize(v) THEN "Io" ELSE "Ok"

Send(v, room) ==
    /\ wire' = wire \o SendWritten(v, room)
    /\ sendLog' = Append(sendLog, [val |-> v,
                                   wrote |-> Len(SendWritten(v, room)),
                                   res |-> SendResult(v, room)])
    /\ UNCHANGED << nread, fault, buffer, rawCount, last, returned, consumed, udpVars, debugBuild, probe >>

SendAny ==
    /\ Len(sendLog) + rawCount < MaxWrites
    /\ \E v \in Msgs, room \in SendRooms : Send(v, room)

\* a peer writing bytes of its own to the stream
PeerWrite ==
    \E bs \in RawChunks :
        /\ Len(sendLog) + rawCount < MaxWrites
        /\ wire' = wire \o bs
        /\ rawCount' = rawCount + 1
        /\ UNCHANGED << nread, fault, buffer, sendLog, last, returned, consumed, udpVars, debugBuild, probe >>

\* -------------------------------------------------------------- transport
\* the connection is reset: reads fail with ConnectionReset from now on
Reset ==
    /\ ~fault
    /\ fault' = TRUE
    /\ UNCHANGED << wire, nread, buffer, sendLog, rawCount, last, returned, consumed, udpVars, debugBuild, probe >>

\* ------------------------------------------------- SerializedTcpStream::recv
\* stream.read_to_end(&mut buffer): appends what the socket holds; on a
\* non-blocking socket it then ends with Err(WouldBlock), or with the pending
\* socket error
ReadErr == IF fault THEN "ConnectionReset" ELSE "WouldBlock"

\* the payload slice running to the end of the buffer
PayloadToEnd(buf, end) == SubSeq(buf, PrefixLen + 1, Len(buf))

\* the payload slice starting one byte early
PayloadOffByOne(buf, end) == SubSeq(buf, PrefixLen, end)

\* &buffer[8 .. 8 + size]
Payload(buf, end) == SubSeq(buf, PrefixLen + 1, end)

\* a crop by the payload's length only, the prefix's 8 bytes not counted
CropPayloadOnly(buf, end) == SubSeq(buf, end - PrefixLen + 1, Len(buf))

\* clearing the buffer instead of cropping it
CropClear(buf, end) == <<>>

\* buffer[8 + size ..].to_vec()
Crop(buf, end) == SubSeq(buf, end + 1, Len(buf))

\* recv after the read, in a build with (dbg) or without overflow checks:
\* result kind, message, the buffer it leaves, the number of bytes it removed
\* a partial frame thrown away with the error
IncompleteDropsBuffer(buf) ==
    [kind |-> "WouldBlock", msg |-> <<>>, rest |-> <<>>, used |-> 0]

\* the early return of line 69: fewer than 8 + size bytes are buffered, and
\* the buffer stays as read_to_end left it
Incomplete(buf) ==
    [kind |-> "WouldBlock", msg |-> <<>>, rest |-> buf, used |-> 0]

\* a frame that does not decode skipped, so that the next call sees the next frame
UndecodedSkipsFrame(kind, buf, end) ==
    [kind |-> kind, msg |-> <<>>, rest |-> Crop(buf, end), used |-> 0]

\* the `?` of line 73: the payload does not decode, and the call returns
\* before line 75 crops the buffer
Undecoded(kind, buf, end) ==
    [kind |-> kind, msg |-> <<>>, rest |-> buf, used |-> 0]

Extract(buf, dbg) ==
    LET p == DecodeU64(buf) IN
    IF p.kind # "Ok"
    THEN [kind |-> p.kind, msg |-> <<>>, rest |-> buf, used |-> 0]
    ELSE
      LET size == p.val
          end  == (PrefixLen + size) % WordMod
      IN  IF dbg /\ PrefixLen + size >= WordMod
          \* 8 + size overflows usize and the addition panics
          THEN [kind |-> "Panic", msg |-> <<>>, rest |-> buf, used |-> 0]
          ELSE IF Len(buf) < end
          THEN Incomplete(buf)
          ELSE IF end < PrefixLen
          \* the sum wrapped: &buffer[8 .. end] with end < 8 panics
          THEN [kind |-> "Panic", msg |-> <<>>, rest |-> buf, used |-> 0]
          ELSE
            LET m == Decode(Payload(buf, end)) IN
            IF m.kind # "Ok"
            THEN Undecoded(m.kind, buf, end)
            ELSE [kind |-> "Ok", msg |-> m.val, rest |-> Crop(buf, end), used |-> end]

\* one recv call; n is the number of bytes the socket holds when it is made
Recv(n) ==
    LET got == SubSeq(wire, nread + 1, nread + n)
        buf == buffer \o got
        r   == Extract(buf, debugBuild)
    IN  /\ nread' = nread + n
        /\ buffer' = r.rest
        /\ returned' = IF r.kind = "Ok" THEN Append(returned, r.msg) ELSE returned
        /\ consumed' = consumed + r.used
        /\ last' = [rerr |-> ReadErr, buf |-> buf, kind |-> r.kind, msg |-> r.msg]
        /\ UNCHANGED << wire, fault, sendLog, rawCount, udpVars, debugBuild, probe >>

RecvAny == \E n \in 0 .. (Len(wire) - nread) : Recv(n)

\* ------------------------------------------------ SerializedUdpSocket::send_to
Addrs == { "B", "C" }

\* the payload serialized before the prefix
\* a datagram whose length prefix is half as wide as the stream's
DatagramNarrowPrefix(v) == LeBytes(SerializedSize(v), PrefixLen \div 2) \o Encode(v)

DatagramPayloadFirst(v) == Encode(v) \o EncodeU64(SerializedSize(v))

\* the buffer send_to builds: the prefix serialized into it, then the payload
Datagram(v) == EncodeU64(SerializedSize(v)) \o Encode(v)

\* one send_to call from the socket bound to `from`; ok is whether the
\* socket's send_to succeeds.  orig remembers the value a datagram was built from.
SendTo(from, v, ok) ==
    /\ dgCount < MaxDgrams
    /\ dgCount' = dgCount + 1
    /\ net' = IF ok THEN Append(net, [bytes |-> Datagram(v), from |-> from, orig |-> <<v>>])
              ELSE net
    /\ UNCHANGED << queue, udpLast, streamVars, debugBuild, probe >>

SendToAny == \E from \in Addrs, v \in Msgs, ok \in BOOLEAN : SendTo(from, v, ok)

\* what a peer that is not a SerializedUdpSocket may send: a datagram shorter
\* than a prefix, one with a payload that is no Option<u8>, one longer and one
\* shorter than its prefix says
RawDgrams == { <<1, 0>>,
               EncodeU64(1) \o <<TopByte>>,
               EncodeU64(1) \o <<0, 1>>,
               EncodeU64(2) \o <<1>> }

PeerSendTo ==
    \E from \in Addrs, bs \in RawDgrams :
        /\ dgCount < MaxDgrams
        /\ dgCount' = dgCount + 1
        /\ net' = Append(net, [bytes |-> bs, from |-> from, orig |-> <<>>])
        /\ UNCHANGED << queue, udpLast, streamVars, debugBuild, probe >>

RemoveAt(s, i) == SubSeq(s, 1, i - 1) \o SubSeq(s, i + 1, Len(s))

\* the network delivers one datagram, in any order
DeliverDgram ==
    \E i \in 1 .. Len(net) :
        /\ queue' = Append(queue, net[i])
        /\ net' = RemoveAt(net, i)
        /\ UNCHANGED << dgCount, udpLast, streamVars, debugBuild, probe >>

\* the network loses one datagram
LoseDgram ==
    \E i \in 1 .. Len(net) :
        /\ net' = RemoveAt(net, i)
        /\ UNCHANGED << queue, dgCount, udpLast, streamVars, debugBuild, probe >>

\* ---------------------------------------------- SerializedUdpSocket::recv_from
Zeros(n) == [i \in 1 .. n |-> 0]

\* let mut size = [0; 8]; socket.peek(&mut size): the first bytes of the
\* datagram at the head of the queue, over the zeros the array starts with
\* (a POSIX socket: a datagram longer than the array is not an error)
Peeked(d) == Take(d.bytes, PrefixLen) \o Zeros(PrefixLen - Min(PrefixLen, Len(d.bytes)))

\* socket.recv_from(&mut buffer) with buffer = vec![0; cap]: the datagram's
\* first cap bytes (the rest is discarded) over the zeros
Received(d, cap) == Take(d.bytes, cap) \o Zeros(cap - Min(cap, Len(d.bytes)))

\* the peek error dropped and the zeroed arrays decoded
EmptyQueueErrorIgnored(q) ==
    [kind |-> "UnexpectedEof", msg |-> <<>>, addr |-> "none", queue |-> q]

\* socket.peek(&mut size)? with nothing queued on the non-blocking socket:
\* the io::Error of kind WouldBlock, returned as ErrorKind::Io
EmptyQueueResult(q) ==
    [kind |-> "WouldBlock", msg |-> <<>>, addr |-> "none", queue |-> q]

\* a receive that leaves the datagram queued, as peek does
ConsumeNothing(q) == q

\* the queue after socket.recv_from took the datagram at its head
Consume(q) == Tail(q)

\* recv_from on queue q: result kind, message, sender, and the queue it leaves
RecvFromResult(q, dbg) ==
    IF q = <<>>
    THEN EmptyQueueResult(q)
    ELSE
      LET d    == Head(q)
          size == DecodeU64(Peeked(d)).val
          cap  == (PrefixLen + size + 1) % WordMod
          end  == (PrefixLen + size) % WordMod
          readSize == Min(cap, Len(d.bytes))
          buf  == Received(d, cap)
      IN  IF dbg /\ PrefixLen + size + 1 >= WordMod
          \* 8 + size + 1 overflows where overflow is checked: panic before the receive
          THEN [kind |-> "Panic", msg |-> <<>>, addr |-> "none", queue |-> q]
          ELSE IF cap >= WordMod \div 2
          \* vec![0; cap] beyond isize::MAX: capacity overflow
          THEN [kind |-> "Panic", msg |-> <<>>, addr |-> "none", queue |-> q]
          ELSE IF dbg /\ readSize # size + PrefixLen
          \* debug_assert_eq!(read_size, size + 8)
          THEN [kind |-> "Panic", msg |-> <<>>, addr |-> "none", queue |-> Consume(q)]
          ELSE IF end < PrefixLen \/ end > Len(buf)
          \* &buffer[8 .. 8 + size] out of range
          THEN [kind |-> "Panic", msg |-> <<>>, addr |-> "none", queue |-> Consume(q)]
          ELSE
            LET m == Decode(Payload(buf, end)) IN
            IF m.kind # "Ok"
            THEN [kind |-> m.kind, msg |-> <<>>, addr |-> "none", queue |-> Consume(q)]
            ELSE [kind |-> "Ok", msg |-> m.val, addr |-> d.from, queue |-> Consume(q)]

RecvFrom ==
    LET r == RecvFromResult(queue, debugBuild) IN
    /\ queue' = r.queue
    /\ udpLast' = [found |-> queue, left |-> r.queue, kind |-> r.kind, msg |-> r.msg,
                   addr |-> r.addr]
    /\ UNCHANGED << net, dgCount, streamVars, debugBuild, probe >>

NextUdp == SendToAny \/ PeerSendTo \/ DeliverDgram \/ LoseDgram \/ RecvFrom

SpecUdp == Init /\ [][NextUdp]_vars

\* ------------------------------------------------------------ specifications
\* both endpoints of a stream, a peer that may write anything, and resets
Next == SendAny \/ PeerWrite \/ Reset \/ RecvAny

Spec == Init /\ [][Next]_vars

\* the values of the send calls that returned Ok, in order
SentVals == [i \in 1 .. Len(SelectSeq(sendLog, LAMBDA e : e.res = "Ok")) |->
                SelectSeq(sendLog, LAMBDA e : e.res = "Ok")[i].val]

\* One frame on a healthy stream, its bytes reaching the receiver in any
\* split, the receiver polling: test_serialized_tcp without the sleep.
SendFrame ==
    /\ sendLog = <<>>
    /\ \E v \in Msgs : Send(v, PrefixLen + SerializedSize(v))

\* a poll that finds new bytes at the socket
RecvSome == \E n \in 1 .. (Len(wire) - nread) : Recv(n)

\* a poll that finds none
RecvNone == Recv(0)

NextFrame == SendFrame \/ RecvSome \/ RecvNone

\* bytes written to the stream keep arriving and the receiver keeps polling
SpecFrame == Init /\ [][NextFrame]_vars /\ WF_vars(RecvSome)

\* CarryFrames frames sent back to back; the first read finds all of them
\* but the last one whole and a proper prefix of the last one, a later read
\* finds the rest.
SendCarry ==
    /\ Len(sendLog) < CarryFrames
    /\ \E v \in Msgs : Send(v, PrefixLen + SerializedSize(v))

\* the length of the first k frames sent
RECURSIVE FramesLen(_)
FramesLen(k) == IF k = 0 THEN 0 ELSE FramesLen(k - 1) + Len(Frame(sendLog[k].val))

RecvCarry ==
    /\ Len(sendLog) = CarryFrames
    /\ \E n \in 0 .. (Len(wire) - nread) :
          /\ \/ n = 0
             \/ nread = 0 /\ FramesLen(CarryFrames - 1) < n /\ n < Len(wire)
             \/ nread > 0 /\ nread + n = Len(wire)
          /\ Recv(n)

NextCarry == SendCarry \/ RecvCarry

SpecCarry == Init /\ [][NextCarry]_vars

\* The u64 values whose serialized size is looked at: the value of the
\* repository's test, the smallest values and the largest ones.
SizeSamples == { 666 } \cup (0 .. SizeProbes - 1) \cup (WordMod - SizeProbes .. WordMod - 1)

\* bincode's serialization of one u64, on its own
SerializeU64 ==
    \E n \in SizeSamples :
        /\ probe' = << [n |-> n, bytes |-> EncodeU64(n)] >>
        /\ UNCHANGED << streamVars, udpVars, debugBuild >>

NextSize == SerializeU64

SpecSize == Init /\ [][NextSize]_vars

\* One endpoint of each transport sending the same kinds of value: send calls
\* on the stream next to send_to calls from one socket.
SendToOne == \E v \in Msgs, ok \in BOOLEAN : SendTo("B", v, ok)

NextWire == SendAny \/ SendToOne

SpecWire == Init /\ [][NextWire]_vars

\* ------------------------------------------------------------------ claims
\* the stream carries nothing but whole frames written by send calls
CleanWire ==
    /\ rawCount = 0
    /\ \A i \in 1 .. Len(sendLog) : sendLog[i].res = "Ok" \/ sendLog[i].wrote = 0

\* C1 (stream round trip): on a stream that carries only the frames of
\* successful sends and has no reset pending, a recv made when every byte
\* written has reached the receiver returns Ok(v) for the oldest sent value v
\* not yet returned; it returns no message only if every sent value already was.
StreamRoundTrip ==
    (CleanWire /\ ~fault /\ last.kind # "NoCall" /\ nread = Len(wire))
    => \/ /\ last.kind = "Ok"
          /\ Len(returned) <= Len(SentVals)
          /\ last.msg = SentVals[Len(returned)]
          /\ returned = Take(SentVals, Len(returned))
       \/ /\ last.kind # "Ok"
          /\ returned = SentVals

\* test_serialized_tcp: Some(x) sent, wholly arrived, received
StreamRoundTripWitness ==
    /\ CleanWire /\ ~fault
    /\ SentVals = << <<TopByte>> >>
    /\ nread = Len(wire)
    /\ last.kind = "Ok" /\ last.msg = <<TopByte>>
    /\ returned = SentVals

\* C2 (datagram round trip): a recv_from call that finds at the head of the
\* queue a datagram built by send_to(v, ..) from address a returns Ok((v, a))
\* and leaves the queue without exactly that datagram.
DatagramRoundTrip ==
    (udpLast.kind # "NoCall" /\ udpLast.found # <<>> /\ Head(udpLast.found).orig # <<>>)
    => /\ udpLast.kind = "Ok"
       /\ udpLast.msg = Head(udpLast.found).orig[1]
       /\ udpLast.addr = Head(udpLast.found).from
       /\ udpLast.left = Tail(udpLast.found)

\* test_serialized_udp: a value sent from B, received with B's address, with
\* another datagram behind it left in the queue
DatagramRoundTripWitness ==
    /\ udpLast.kind = "Ok"
    /\ udpLast.msg = <<TopByte>>
    /\ udpLast.addr = "B"
    /\ Len(udpLast.found) = 2
    /\ Head(udpLast.found).orig = << <<TopByte>> >>
    /\ udpLast.left = Tail(udpLast.found)

\* C3 (partial-read tolerance): with one frame sent and its bytes reaching the
\* receiver in any split between polls, no recv returns a message from a
\* buffer shorter than the frame, recv returns at most one message, and if
\* bytes keep arriving and the receiver keeps polling, recv eventually has
\* returned exactly the message that was framed.
PartialReadTolerance ==
    /\ [](last.kind = "Ok" =>
            /\ Len(sendLog) = 1
            /\ Len(last.buf) >= Len(Frame(sendLog[1].val)))
    /\ [](Len(returned) <= 1)
    /\ \A v \in Msgs : (SentVals = <<v>>) ~> [](returned = <<v>>)

\* a poll made when all but the last byte of the frame had arrived returned
\* no message and kept the bytes
PartialReadWitness ==
    /\ SentVals = << <<TopByte>> >>
    /\ nread = Len(wire) - 1
    /\ last.kind = "WouldBlock"
    /\ buffer = Take(wire, nread)
    /\ returned = <<>>

\* C4 (short-prefix poll), as claimed: a recv call whose buffer, after the
\* read, holds fewer than 8 bytes returns WouldBlock.
ShortPrefixWouldBlock ==
    (last.kind # "NoCall" /\ Len(last.buf) < PrefixLen) => last.kind = "WouldBlock"

\* C5 (buffer carry-over), as claimed: when the first read appends all frames
\* but the last and a proper prefix of the last, the polls return the
\* messages one per call in order, then WouldBlock while only that prefix is
\* buffered, and the last message once the rest has arrived.
CarryOver ==
    (Len(sendLog) = CarryFrames /\ last.kind # "NoCall" /\ nread > 0)
    => LET whole == CarryFrames - 1
           k     == Len(returned)
       IN  \* polls that still find a whole frame at the head return it
           /\ (last.kind = "Ok" /\ k <= whole) => last.msg = sendLog[k].val
           /\ k < whole => last.kind = "Ok"
           \* only the partial last frame is buffered
           /\ (nread < Len(wire) /\ last.buf = SubSeq(wire, FramesLen(whole) + 1, nread))
                => /\ last.kind = "WouldBlock"
                   /\ k = whole
           \* the rest of the last frame has arrived
           /\ (nread = Len(wire) /\ last.buf = Frame(sendLog[CarryFrames].val))
                => /\ last.kind = "Ok"
                   /\ last.msg = sendLog[CarryFrames].val

\* C6 (receive-buffer invariant): the buffer is the bytes read from the
\* stream so far without the frames recv has returned; each recv call worked
\* on the buffer it found with the newly read bytes appended, and left it
\* whole, or without the 8+size bytes at its head when it returned a message.
ReceiveBufferInvariant ==
    /\ buffer = SubSeq(wire, consumed + 1, nread)
    /\ last.kind = "Ok" =>
          LET n == PrefixLen + DecodeU64(last.buf).val IN
          /\ n <= consumed
          /\ last.buf = SubSeq(wire, consumed - n + 1, nread)
          /\ buffer = Drop(last.buf, n)
    /\ last.kind \notin { "Ok", "NoCall" } =>
          /\ last.buf = SubSeq(wire, consumed + 1, nread)
          /\ buffer = last.buf

\* a message was returned and the bytes behind its frame stayed buffered
ReceiveBufferWitness ==
    /\ last.kind = "Ok"
    /\ consumed > 0
    /\ buffer # <<>>
    /\ buffer = SubSeq(wire, consumed + 1, nread)

\* C7 (length invariant): a recv that returns a message decoded it from the
\* bytes [8, 8+size) of its buffer, size being the value of the first 8
\* bytes, and shortened the buffer by 8+size bytes.
LengthInvariant ==
    last.kind = "Ok" =>
        LET size == DecodeU64(last.buf).val
            m    == Decode(SubSeq(last.buf, PrefixLen + 1, PrefixLen + size))
        IN  /\ DecodeU64(last.buf).kind = "Ok"
            /\ PrefixLen + size <= Len(last.buf)
            /\ m.kind = "Ok"
            /\ last.msg = m.val
            /\ Len(buffer) = Len(last.buf) - (PrefixLen + size)

\* a two-byte payload was consumed and later bytes were left
LengthInvariantWitness ==
    /\ last.kind = "Ok"
    /\ DecodeU64(last.buf).val = 2
    /\ last.msg = <<1>>
    /\ Len(last.buf) > PrefixLen + 2
    /\ Len(buffer) = Len(last.buf) - (PrefixLen + 2)

\* C8 (partial-payload poll), as claimed: a recv call whose buffer holds the
\* 8 prefix bytes but fewer than 8+size bytes returns WouldBlock and removes
\* nothing.
PartialPayloadWouldBlock ==
    (/\ last.kind # "NoCall"
     /\ Len(last.buf) >= PrefixLen
     /\ Len(last.buf) < PrefixLen + DecodeU64(last.buf).val)
    => /\ last.kind = "WouldBlock"
       /\ buffer = last.buf

\* C9 (read failure surfaced), as claimed: a recv call whose read failed with
\* a connection reset returns an I/O error, not WouldBlock, a decode error or
\* a message.
ReadFailureSurfaced ==
    (last.kind # "NoCall" /\ last.rerr = "ConnectionReset")
    => last.kind \in { "ConnectionReset", "UnexpectedEof" }

\* C10 (no partial-frame writes), as claimed: every send call wrote nothing
\* or its whole frame.
NoPartialFrameWrites ==
    \A i \in 1 .. Len(sendLog) :
        sendLog[i].wrote \in { 0, Len(Frame(sendLog[i].val)) }

\* C11 (empty datagram queue): a recv_from call made with nothing queued
\* fails with the WouldBlock I/O error of the peek, returns no message and
\* leaves the queue as it was.
EmptyQueueWouldBlock ==
    (udpLast.kind # "NoCall" /\ udpLast.found = <<>>)
    => /\ udpLast.kind = "WouldBlock"
       /\ udpLast.msg = <<>>
       /\ udpLast.addr = "none"
       /\ udpLast.left = <<>>

\* a poll of a socket whose only datagram so far was lost on the way
EmptyQueueWitness ==
    /\ udpLast.kind = "WouldBlock"
    /\ udpLast.found = <<>>
    /\ queue = <<>>
    /\ dgCount = 1
    /\ net = <<>>

\* C12 (one wire format on both transports): a successful send(v) appends to
\* the stream an 8-byte prefix holding the payload length, prefix excluded,
\* followed by the payload; a successful send_to(v) emits exactly one
\* datagram, whose content is that same byte sequence, of length 8 + size.
OneWireFormat ==
    /\ [][sendLog' # sendLog =>
            LET e == sendLog'[Len(sendLog')]
                p == Encode(e.val)
            IN  e.res = "Ok" => wire' = wire \o (LeBytes(Len(p), PrefixLen) \o p)]_vars
    /\ [][net' # net =>
            /\ Len(net') = Len(net) + 1
            /\ SubSeq(net', 1, Len(net)) = net
            /\ LET d == net'[Len(net')]
                   p == Encode(d.orig[1])
               IN  /\ d.bytes = LeBytes(Len(p), PrefixLen) \o p
                   /\ Len(d.bytes) = PrefixLen + SerializedSize(d.orig[1])]_vars

\* the same value sent once on each transport: the stream and the datagram
\* carry the same ten bytes
OneWireFormatWitness ==
    /\ Len(sendLog) = 1
    /\ sendLog[1].res = "Ok"
    /\ sendLog[1].val = <<TopByte>>
    /\ Len(net) = 1
    /\ net[1].orig = << <<TopByte>> >>
    /\ net[1].bytes = wire
    /\ Len(wire) = PrefixLen + 2

\* C13 (fixed prefix width): the serialized form of a u64 is exactly 8 bytes
\* long whatever the value, 0 and the largest value included.
FixedPrefixWidth ==
    \A i \in 1 .. Len(probe) :
        /\ Len(probe[i].bytes) = PrefixLen
        /\ \A k \in 1 .. PrefixLen : probe[i].bytes[k] \in Byte

\* the largest value has been serialized
FixedPrefixWidthWitness ==
    /\ probe # <<>>
    /\ probe[1].n = WordMod - 1
    /\ probe[1].bytes = [k \in 1 .. PrefixLen |-> TopByte]

\* the last recv call got a whole frame whose payload does not decode
PayloadFailed ==
    /\ last.kind \in { "InvalidTagEncoding", "UnexpectedEof" }
    /\ Len(last.buf) >= PrefixLen

\* C14 (a decode failure on the stream leaves the frame in place): a recv
\* call that fails because the payload does not decode removes no bytes, and
\* from then on every recv call, with or without new data, fails with the same
\* decode error: the buffer keeps its bytes and no message is returned again.
DecodeFailureKeepsFrame ==
    /\ [](PayloadFailed => buffer = last.buf)
    /\ [][PayloadFailed =>
            /\ last'.kind = last.kind
            /\ returned' = returned
            /\ consumed' = consumed
            /\ SubSeq(buffer', 1, Len(buffer)) = buffer]_vars

\* a frame that does not decode at the head of the buffer, a whole frame of a
\* successful send behind it, every byte read
DecodeFailureWitness ==
    /\ PayloadFailed
    /\ nread = Len(wire)
    /\ Len(sendLog) = 1
    /\ sendLog[1].res = "Ok"
    /\ buffer = (EncodeU64(1) \o <<TopByte>>) \o Frame(sendLog[1].val)
    /\ returned = <<>>

\* the datagram the last recv_from call found at the head of the queue
HeadBytes == Head(udpLast.found).bytes

\* C15 (undersized datagram): a recv_from call that finds a datagram shorter
\* than the 8-byte prefix at the head of the queue fails with an I/O or a
\* decode error; it returns no message built from zeros standing in for the
\* bytes the datagram does not have.
UndersizedDatagramFails ==
    (udpLast.kind # "NoCall" /\ udpLast.found # <<>> /\ Len(HeadBytes) < PrefixLen)
    => udpLast.kind \in { "WouldBlock", "UnexpectedEof", "InvalidTagEncoding" }

\* C16 (datagram length check): recv_from returns a message only when the
\* datagram it received is exactly 8 + size bytes long, size being the value
\* of its prefix.
DatagramLengthChecked ==
    (udpLast.kind = "Ok")
    => Len(HeadBytes) = PrefixLen + DecodeU64(Peeked(Head(udpLast.found))).val

\* the last recv_from call received a datagram whose payload does not decode
DatagramUndecoded == udpLast.kind \in { "InvalidTagEncoding", "UnexpectedEof" }

\* C17 (a datagram decode failure is contained): a recv_from call that fails
\* on the payload of a datagram has removed that datagram and nothing else,
\* and the next recv_from call, finding a well-formed datagram at the head of
\* the queue, returns that datagram's message and sender.
DatagramFailureContained ==
    /\ [](DatagramUndecoded => udpLast.left = Tail(udpLast.found))
    /\ [][(DatagramUndecoded /\ udpLast' # udpLast /\ queue # <<>> /\ Head(queue).orig # <<>>)
            => /\ udpLast'.kind = "Ok"
               /\ << udpLast'.msg >> = Head(queue).orig
               /\ udpLast'.addr = Head(queue).from
               /\ queue' = Tail(queue)]_vars

\* a datagram with an undecodable payload has just been received and taken
\* off the queue, and a datagram of send_to is next in line
DatagramFailureWitness ==
    /\ udpLast.kind = "InvalidTagEncoding"
    /\ Len(udpLast.found) = 2
    /\ queue = Tail(udpLast.found)
    /\ Head(queue).orig = << <<TopByte>> >>
    /\ Head(queue).from = "C"

\* C18 (retrying after WouldBlock is idempotent): when recv has returned
\* WouldBlock and no new bytes are read before the next recv call, that call
\* returns WouldBlock again and the buffer is byte for byte what it was; the
\* first call left in the buffer all that it had read.
WouldBlockRetryIdempotent ==
    /\ [](last.kind = "WouldBlock" => buffer = last.buf)
    /\ [][(last.kind = "WouldBlock" /\ nread' = nread)
            => /\ last'.kind = "WouldBlock"
               /\ last'.buf = last.buf
               /\ buffer' = buffer
               /\ returned' = returned]_vars

\* recv has returned WouldBlock on a prefix and a part of its payload, and
\* every byte written has been read: each further call is a retry
WouldBlockRetryWitness ==
    /\ last.kind = "WouldBlock"
    /\ nread = Len(wire)
    /\ Len(buffer) > PrefixLen
    /\ buffer = wire

\* the total length, prefixes included, of the frames of the first k messages
\* recv has returned
RECURSIVE ReturnedLen(_)
ReturnedLen(k) == IF k = 0 THEN 0 ELSE ReturnedLen(k - 1) + Len(Frame(returned[k]))

\* C19 (the stream is first in, first out): when the stream carries the
\* frames of successful sends v1..vn and nothing else, then however the bytes
\* are split over the recv calls, the messages recv has returned are v1..vk
\* for some k <= n, in order, none lost, repeated or invented, and the bytes
\* read and not yet returned are still in the buffer.
StreamFifo ==
    CleanWire =>
        /\ Len(returned) <= Len(SentVals)
        /\ returned = SubSeq(SentVals, 1, Len(returned))
        /\ consumed = ReturnedLen(Len(returned))
        /\ buffer = SubSeq(wire, consumed + 1, nread)

\* two different values sent and returned in the order sent, the second
\* frame having arrived in pieces
StreamFifoWitness ==
    /\ CleanWire
    /\ Len(SentVals) = 2
    /\ SentVals[1] = <<TopByte>>
    /\ SentVals[2] = <<>>
    /\ returned = SentVals
    /\ last.kind = "Ok"
    /\ Len(last.buf) = Len(Frame(SentVals[2]))

\* C20 (no overflow in the frame-length arithmetic), as claimed: whatever
\* value the 8 prefix bytes hold, the largest ones included, recv computes
\* 8 + size without wrapping or aborting: a call that has a whole prefix in
\* its buffer ends with a result, and that result is WouldBlock when fewer
\* than 8 + size bytes are buffered.
LengthSumNeverOverflows ==
    (last.kind # "NoCall" /\ Len(last.buf) >= PrefixLen)
    => /\ last.kind # "Panic"
       /\ last.kind \in { "WouldBlock", "Ok", "InvalidTagEncoding", "UnexpectedEof" }
       /\ (PrefixLen + DecodeU64(last.buf).val >= WordMod => last.kind = "WouldBlock")

====
